---- MODULE Spec2Model ----
(***************************************************************************)
(* Model of Scraper::scraper (src/src/lib/lib.rs): the crawl pipeline of   *)
(* vstu-scraping-rs.  The whole pipeline is one async task; every future   *)
(* it creates is polled inside that task.  An action of the model is one   *)
(* poll of the task: the arrival of one response (HTTP or storage) and     *)
(* everything the code does synchronously after it, up to the next await   *)
(* that is pending.  buffer_unordered refills its queue and polls the new  *)
(* futures for the first time inside the same poll, so a launch is part of *)
(* the action that frees (or creates) the slot.                            *)
(*                                                                         *)
(* A panic (unwrap / expect) in any future unwinds through scraper(): the  *)
(* run is aborted and nothing is returned.                                 *)
(***************************************************************************)
EXTENDS Integers, Sequences, FiniteSets, TLC

\* ---------------------------------------------------------------- bounds
MaxConcurrentTasks == 2   \* concurrent_tasks ranges over 1..MaxConcurrentTasks
MaxCategories == 2        \* cat-item elements on the front page
MaxPage == 2              \* largest numeral that occurs in a nav-links child
MaxUrl == 2               \* distinct detail URLs of the site
MaxClock == 1             \* wall clock (ms) ranges over 0..MaxClock
MaxWords == 2             \* words in the label of a table row
MaxTitle == 4             \* characters in the text of a title element

\* ------------------------------------------------------- option / vectors
\* Option<T> is a sequence of length 0 (None) or 1 (Some); Iterator::flatten
\* over a Vec<Option<T>> or a Vec<Vec<T>> is then the same concatenation.
None == <<>>
Some(x) == <<x>>

RECURSIVE flatten(_)
flatten(vv) == IF vv = <<>> THEN <<>> ELSE Head(vv) \o flatten(Tail(vv))

Range(s) == {s[i] : i \in 1..Len(s)}

Count(s, x) == Cardinality({i \in 1..Len(s) : s[i] = x})

\* ------------------------------------------------------ numerals (usize)
Digits == <<"0", "1", "2", "3", "4", "5", "6", "7", "8", "9">>

\* usize::to_string: decimal digits, most significant first, no sign.
RECURSIVE to_string(_)
to_string(n) ==
    IF n < 10 THEN <<Digits[n + 1]>>
    ELSE Append(to_string(n \div 10), Digits[(n % 10) + 1])

DigitValue(c) == IF \E d \in 1..10 : Digits[d] = c
                 THEN (CHOOSE d \in 1..10 : Digits[d] = c) - 1
                 ELSE -1

RECURSIVE ParseDigits(_, _)
ParseDigits(text, acc) ==
    IF text = <<>> THEN acc
    ELSE IF DigitValue(Head(text)) < 0 THEN -1
    ELSE ParseDigits(Tail(text), acc * 10 + DigitValue(Head(text)))

\* str::parse::<usize>: an optional leading '+', then one or more decimal
\* digits; anything else (empty text, blank, letter) is Err, here -1.
parse_usize(text) ==
    LET body == IF text # <<>> /\ Head(text) = "+" THEN Tail(text) ELSE text
    IN IF body = <<>> THEN -1 ELSE ParseDigits(body, 0)

\* ------------------------------------------------- Scraper::page_count
\* The first page of a category, as page_count reads it: whether it has an
\* element of class nav-links, and the texts of that element's children.
\* The children of the nav-links element of a category with n pages, seen
\* from its first page: the page numbers 1..n and the "next" link, with a
\* whitespace text node between two elements.
RECURSIVE PageLinks(_)
PageLinks(n) ==
    IF n = 0 THEN <<>> ELSE PageLinks(n - 1) \o <<to_string(n), <<" ">>>>

NavLinks(n) == PageLinks(n) \o <<<<"n", "e", "x", "t">>>>

\* The same element when the links before the last one are elided: the
\* last page number is then preceded by a dots element.
ElidedNavLinks(n) ==
    <<to_string(1), <<" ">>, <<".">>, <<" ">>, to_string(n), <<" ">>,
      <<"n", "e", "x", "t">>>>

\* Category pages: without nav-links; with the nav-links of 2..MaxPage
\* pages, complete or elided; and with nav-links that page_count cannot
\* read: no child, two children, dots as the third-from-last child.
CategoryHtml ==
    {[nav |-> FALSE, children |-> <<>>]}
    \cup {[nav |-> TRUE, children |-> NavLinks(n)] : n \in 2..MaxPage}
    \cup {[nav |-> TRUE, children |-> ElidedNavLinks(MaxPage)]}
    \cup {[nav |-> TRUE, children |-> ch] :
            ch \in {<<>>, <<to_string(1), <<" ">>>>,
                    <<to_string(1), <<".">>, <<" ">>, <<"n", "e", "x", "t">>>>}}

\* count - 3 underflows for fewer than three children: a debug build panics
\* on the subtraction, a release build wraps and nth() yields None, which
\* unwrap() turns into a panic; parse() of a non-number is unwrap()ed too.
page_count_panics(html) ==
    /\ html.nav
    /\ \/ Len(html.children) < 3
       \/ parse_usize(html.children[Len(html.children) - 2]) < 0

\* The first child read in place of the third-from-last one.
page_count_first_child(html) ==
    IF html.nav THEN parse_usize(html.children[1]) ELSE 1

\* nth(count - 3) is 0-based: the third-from-last child.
page_count(html) ==
    IF html.nav THEN parse_usize(html.children[Len(html.children) - 2]) ELSE 1

\* url.to_owned() + "/page/" + page.to_string()
PageUrl(url, page) == <<url, "/page/", to_string(page)>>

Min(a, b) == IF a < b THEN a ELSE b

\* buffer_unordered without its cap: every remaining future is pulled.
buffer_unbounded(max, in_progress, remaining) == remaining

\* futures::stream::BufferUnordered::poll_next: the number of futures pulled
\* from the underlying stream while in_progress_queue.len() < max.
buffer_unordered(max, in_progress, remaining) ==
    IF in_progress >= max THEN 0 ELSE Min(max - in_progress, remaining)

\* ------------------------------------------------- sort_unstable / dedup
\* Detail URLs are 1..MaxUrl; the order of the integers stands for the
\* lexicographic order of the URL strings.
RECURSIVE insert_sorted(_, _)
insert_sorted(x, s) ==
    IF s = <<>> THEN <<x>>
    ELSE IF x <= Head(s) THEN <<x>> \o s
    ELSE <<Head(s)>> \o insert_sorted(x, Tail(s))

RECURSIVE sort_unstable(_)
sort_unstable(s) ==
    IF s = <<>> THEN <<>> ELSE insert_sorted(Head(s), sort_unstable(Tail(s)))

\* dedup left out: the vector is handed on as sorted.
dedup_skipped(s) == s

\* Vec::dedup removes consecutive repeated elements only.
RECURSIVE dedup(_)
dedup(s) ==
    IF Len(s) < 2 THEN s
    ELSE IF s[1] = s[2] THEN dedup(Tail(s))
    ELSE <<s[1]>> \o dedup(Tail(s))

\* ------------------------------------------------------------ responses
NoHref == 0
CategoryUrls == 1..MaxCategories
DetailUrls == 1..MaxUrl

\* The front page: its cat-item elements in document order, each given by
\* the href of its first child (NoHref: no child, or a child without href).
\* The category URLs are interchangeable: the n-th href of the page is n.
FrontHtml ==
    {items \in UNION {[1..k -> CategoryUrls \cup {NoHref}] : k \in 0..MaxCategories} :
        \A a \in 1..Len(items) :
            items[a] # NoHref =>
                items[a] = 1 + Cardinality({b \in 1..(a - 1) : items[b] # NoHref})}

\* filter_map(children().next()).filter_map(get("href"))
category_urls(items) == SelectSeq(items, LAMBDA h : h # NoHref)

\* A listing page: the href of each <a itemprop="url">, NoHref when the
\* anchor has no href attribute.
ListingHtml == UNION {[1..k -> DetailUrls \cup {NoHref}] : k \in 0..1}

\* parse_titles unwraps every href.
parse_titles_panics(anchors) == \E a \in 1..Len(anchors) : anchors[a] = NoHref

\* A detail page, as parse_houseplant reads it.
\* title: an element of class entry-title exists;
\* image: the itemprop="url image" element is missing, has no data-src, or ok;
\* table: no td contains the watering keyword, a tr of the table has fewer
\*        than two children, or ok.
\* The pages drawn are the faultless page and the pages with one fault.
DetailHtml ==
    {h \in [title : BOOLEAN,
            image : {"missing", "nosrc", "ok"},
            table : {"missing", "badrow", "ok"}] :
        Cardinality({f \in {"title", "image", "table"} :
                        \/ f = "title" /\ ~h.title
                        \/ f = "image" /\ h.image # "ok"
                        \/ f = "table" /\ h.table # "ok"}) <= 1}

\* ------------------------------------------------------- the record name
\* The text of the entry-title element: letters, blanks and the separator.
\* "-" stands for the em dash U+2014 of lib.rs 203.
Separator == "-"

TitleChars == {"a", " ", Separator}

Titles == UNION {[1..k -> TitleChars] : k \in 0..MaxTitle}

\* str::split(sep).next(): the text up to the first separator, the whole
\* text when it has none (lib.rs 203; unwrap never fails, to_string copies).
RECURSIVE plant_name(_)
plant_name(text) ==
    IF text = <<>> \/ Head(text) = Separator THEN <<>>
    ELSE <<Head(text)>> \o plant_name(Tail(text))

\* --------------------------------------------- Scraper::parse_attributes
\* A label is a sequence of words.  A word is given by its stem and by
\* whether it is written with capitals; the stems are the transliterated
\* keywords of the regex and one word, "cvet", that holds none of them:
\*   temperat = температ, vlazhn = влажн, osveshchen = освещен,
\*   poliv = полив, grunt = грунт, podkorm = подкорм, udobren = удобрен,
\*   peresad = пересад, razmnozh = размнож, osoben = особен.
Stems == {"temperat", "vlazhn", "osveshchen", "poliv", "grunt", "podkorm",
          "udobren", "peresad", "razmnozh", "osoben", "cvet"}

Words == [stem : Stems, upper : BOOLEAN]

Labels == UNION {[1..k -> Words] : k \in 0..MaxWords}

\* Attribute { parameter, value }
AttributeRows == [parameter : Labels, value : {"v"}]

AttributeLists == UNION {[1..k -> AttributeRows] : k \in 0..1}

\* The label matched as written, without to_lowercase.
to_lowercase_skipped(label) == label

\* str::to_lowercase
to_lowercase(label) == [w \in DOMAIN label |-> [label[w] EXCEPT !.upper = FALSE]]

\* The alternatives of RE, in the order of the pattern (lib.rs 249-257).
RE == <<[group |-> "temp", stems |-> {"temperat"}],
        [group |-> "hum", stems |-> {"vlazhn"}],
        [group |-> "illum", stems |-> {"osveshchen"}],
        [group |-> "water", stems |-> {"poliv"}],
        [group |-> "soil", stems |-> {"grunt"}],
        [group |-> "fertil", stems |-> {"podkorm", "udobren"}],
        [group |-> "trans", stems |-> {"peresad"}],
        [group |-> "prop", stems |-> {"razmnozh"}],
        [group |-> "feature", stems |-> {"osoben"}]>>

\* The pattern is lower case and matches case-sensitively.
Matches(alt, word) == ~word.upper /\ word.stem \in RE[alt].stems

\* Regex::captures: the leftmost match in the text and, at that position,
\* the first alternative that matches; the only group that participates is
\* the group of that alternative.  None when nothing matches.
captures(text) ==
    LET hits == {w \in DOMAIN text : \E alt \in DOMAIN RE : Matches(alt, text[w])}
    IN IF hits = {} THEN None
       ELSE LET w == CHOOSE x \in hits : \A y \in hits : x <= y
                alt == CHOOSE a \in DOMAIN RE :
                          /\ Matches(a, text[w])
                          /\ \A b \in DOMAIN RE : Matches(b, text[w]) => a <= b
            IN Some(RE[alt].group)

Slots == {"temperature", "humidity", "illumination", "watering", "soil",
          "fertilizer", "transplant", "propagation", "features"}

\* Attributes::default()
DefaultAttributes == [slot \in Slots |-> None]

\* The if / else-if chain over caps.name(..) (lib.rs 271-289).
slot_of(caps) ==
    IF caps = "temp" THEN "temperature"
    ELSE IF caps = "hum" THEN "humidity"
    ELSE IF caps = "illum" THEN "illumination"
    ELSE IF caps = "water" THEN "watering"
    ELSE IF caps = "soil" THEN "soil"
    ELSE IF caps = "fertil" THEN "fertilizer"
    ELSE IF caps = "trans" THEN "transplant"
    ELSE IF caps = "prop" THEN "propagation"
    ELSE "features"

\* The body of the loop (lib.rs 264-289) for one item.
classify(acc, item) ==
    LET param == to_lowercase(item.parameter)
        caps == captures(param)
    IN IF caps = None
       THEN [acc EXCEPT !["features"] = Some(item)]
       ELSE [acc EXCEPT ![slot_of(caps[1])] = Some(item)]

RECURSIVE parse_attributes_from(_, _)
parse_attributes_from(acc, items) ==
    IF items = <<>> THEN acc
    ELSE parse_attributes_from(classify(acc, Head(items)), Tail(items))

parse_attributes(items) == parse_attributes_from(DefaultAttributes, items)

\* ---------------------------------------------------------------- state
VARIABLES
    concurrent_tasks,  \* Scraper.concurrent_tasks
    database,          \* Scraper.database.is_some()
    state,             \* position of scraper() in the pipeline
    panic,             \* the unwrap/expect that aborted the run, and its task
    ret,               \* what scraper() returned to its caller
    urls,              \* category URLs read from the front page
    catNext,           \* stage B: next element of stream::iter(urls)
    catTask,           \* stage B: one parse_category future per category
    catResults,        \* stage B: collect::<Vec<_>>(), in completion order
    resolved,          \* detail URLs returned by parse_category so far
    collected,         \* length of the flattened vector of lib.rs 94
    plants_url,        \* the sorted, deduplicated detail URLs
    plantNext,         \* stage C: next element of stream::iter(plants_url)
    plantTask,         \* stage C: one extraction future per element
    plants_info,       \* stage C: collect::<Vec<_>>(), in completion order
    clock,             \* chrono::offset::Local::now().timestamp_millis()
    files,             \* names of the files written under image_dir
    list,              \* parse_attributes: its argument
    attrs,             \* parse_attributes: None, then Some(what it returned)
    title,             \* text of an entry-title element
    name               \* None, then Some(the plant_name read from title)

vars == <<concurrent_tasks, database, state, panic, ret, urls, catNext, catTask,
          catResults, resolved, collected, plants_url, plantNext, plantTask, plants_info, clock, files, list, attrs, title, name>>

\* What no step of the pipeline changes: the configuration, and the state
\* of the separate runs of parse_attributes and of the record name.
config == <<concurrent_tasks, database, list, attrs, title, name>>
stageB == <<urls, catNext, catTask, catResults, resolved, collected>>
stageC == <<plants_url, plantNext, plantTask, plants_info>>
disk == <<clock, files>>

\* A parse_category future.  requested lists the listing-page URLs it has
\* asked for; html is the first page it read; results is the collect of its
\* inner fan-out, in completion order.
IdleCategory ==
    [pc |-> "idle", html |-> [nav |-> FALSE, children |-> <<>>], pages |-> 0,
     next |-> 1, inflight |-> {}, requested |-> <<>>, results |-> <<>>]

\* An extraction future (the async block of stage C).  calls counts the
\* parse_houseplant calls, inserted lists the records handed to db.insert.
NoDetailHtml == [title |-> FALSE, image |-> "", table |-> ""]

\* An extraction future (the async block of stage C): html is the detail
\* page it read, error the Err of parse_houseplant, plant its Ok.  calls
\* counts the parse_houseplant calls, downloads the download_image calls;
\* millis is the timestamp download_image read and file the filename it
\* wrote and returned; inserted lists the records handed to db.insert and
\* insert is what db.insert returned.
IdlePlant ==
    [pc |-> "idle", html |-> NoDetailHtml, error |-> "", plant |-> None,
     calls |-> 0, downloads |-> 0, millis |-> None, file |-> None,
     inserted |-> <<>>, insert |-> ""]

NoPanic == [what |-> "", task |-> 0]

InitScraper ==
    /\ concurrent_tasks \in 1..MaxConcurrentTasks
    /\ database \in BOOLEAN
    /\ state = "New"
    /\ panic = NoPanic
    /\ ret = [kind |-> "none", value |-> <<>>]
    /\ urls = <<>>
    /\ catNext = 1
    /\ catTask = <<>>
    /\ catResults = <<>>
    /\ resolved = {}
    /\ collected = 0
    /\ plants_url = <<>>
    /\ plantNext = 1
    /\ plantTask = <<>>
    /\ plants_info = <<>>
    /\ clock = 0
    /\ files = {}

Init ==
    /\ InitScraper
    /\ list = <<>>
    /\ attrs = None
    /\ title = <<>>
    /\ name = None

\* A panic unwinds through scraper(): every future is dropped where it is
\* and nothing is returned.
Panic(what, task) ==
    /\ state' = "Panicked"
    /\ panic' = [what |-> what, task |-> task]
    /\ UNCHANGED <<config, ret>>

\* ----------------------------------------------------- stage C: launch
\* First poll of the extraction futures pulled from the stream: each calls
\* parse_houseplant, which sends the request for the detail page.
LaunchPlants(tasks, from, k) ==
    [j \in DOMAIN tasks |->
        IF j >= from /\ j < from + k
        THEN [tasks[j] EXCEPT !.pc = "page", !.calls = @ + 1]
        ELSE tasks[j]]

PlantsInProgress(tasks) ==
    Cardinality({j \in DOMAIN tasks : tasks[j].pc \in {"page", "image", "insert"}})

\* lib.rs 89-130: the collected results are flattened (stream, futures and
\* vectors of stage B are consumed), sorted and deduplicated, then the
\* fan-out over the detail URLs is polled for the first time; with no URL
\* at all that stream ends at once and scraper returns Ok(vec![]).
StartStageC(results) ==
    LET pu == dedup(sort_unstable(flatten(flatten(results))))
        k == buffer_unordered(concurrent_tasks, 0, Len(pu))
    IN /\ urls' = <<>>
       /\ catTask' = <<>>
       /\ catNext' = 1
       /\ catResults' = <<>>
       /\ collected' = Len(flatten(flatten(results)))
       /\ plants_url' = pu
       /\ plantTask' = LaunchPlants([j \in 1..Len(pu) |-> IdlePlant], 1, k)
       /\ plantNext' = 1 + k
       /\ plants_info' = <<>>
       /\ IF pu = <<>>
          THEN state' = "Done" /\ ret' = [kind |-> "Ok", value |-> <<>>]
          ELSE state' = "URLsDeduped" /\ UNCHANGED ret

\* ----------------------------------------------------- stage B: fan-out
LaunchCategories(tasks, from, k) ==
    [i \in DOMAIN tasks |->
        IF i >= from /\ i < from + k THEN [tasks[i] EXCEPT !.pc = "first"]
        ELSE tasks[i]]

\* The futures in progress left out of account: the collect of stage B
\* completes as soon as the stream of category URLs is exhausted.
CategoriesInProgress_ignored(tasks) == 0

CategoriesInProgress(tasks) ==
    Cardinality({i \in DOMAIN tasks : tasks[i].pc \in {"first", "pages"}})

\* A parse_category future has returned res: the outer buffer_unordered
\* drops the future and yields res to collect, pulls the next category and,
\* when the stream is exhausted and nothing is in progress, the collect
\* completes.
CategoryReturns(i, task, res) ==
    LET tasks1 == [catTask EXCEPT ![i] = [IdleCategory EXCEPT !.pc = "done"]]
        results1 == Append(catResults, res)
        k == buffer_unordered(concurrent_tasks, CategoriesInProgress(tasks1),
                              Len(urls) + 1 - catNext)
        tasks2 == LaunchCategories(tasks1, catNext, k)
    IN /\ resolved' = resolved \cup Range(flatten(res))
       /\ UNCHANGED <<config, panic, disk>>
       /\ IF CategoriesInProgress(tasks2) = 0 /\ catNext + k > Len(urls)
          THEN StartStageC(results1)
          ELSE /\ catTask' = tasks2
               /\ catNext' = catNext + k
               /\ catResults' = results1
               /\ UNCHANGED <<urls, collected, state, ret, stageC>>

\* --------------------------------------------------------------- stage A
\* scraper() is called: the request for the front page is sent.
Scraper ==
    /\ state = "New"
    /\ state' = "Start"
    /\ UNCHANGED <<config, panic, ret, stageB, stageC, disk>>

\* lib.rs 59-60: send() or text() fails, `?` returns the error.
FrontPageFails ==
    /\ state = "Start"
    /\ state' = "Failed"
    /\ ret' = [kind |-> "Err", value |-> <<>>]
    /\ UNCHANGED <<config, panic, stageB, stageC, disk>>

\* lib.rs 61-94: the categories are read and the stage B stream is polled
\* for the first time; without categories the run goes straight through.
FrontPageArrives ==
    /\ state = "Start"
    /\ \E items \in FrontHtml :
        LET us == category_urls(items)
            k == buffer_unordered(concurrent_tasks, 0, Len(us))
        IN /\ UNCHANGED <<config, panic, resolved, disk>>
           /\ IF us = <<>>
              THEN StartStageC(<<>>)
              ELSE /\ urls' = us
                   /\ catTask' = LaunchCategories([i \in 1..Len(us) |-> IdleCategory],
                                                  1, k)
                   /\ catNext' = 1 + k
                   /\ catResults' = <<>>
                   /\ state' = "CategoriesFetched"
                   /\ UNCHANGED <<collected, ret, stageC>>

\* ------------------------------------------- stage B: parse_category
\* `?` on the transport error carried up to scraper(), as at lib.rs 59.
CategoryFirstPageFails_propagated(i) ==
    /\ state = "CategoriesFetched"
    /\ catTask[i].pc = "first"
    /\ state' = "Failed"
    /\ ret' = [kind |-> "Err", value |-> <<>>]
    /\ UNCHANGED <<config, panic, stageB, stageC, disk>>

\* unwrap() in place of `.ok()?` at lib.rs 169: the transport error panics.
CategoryFirstPageFails_unwrapped(i) ==
    /\ state = "CategoriesFetched"
    /\ catTask[i].pc = "first"
    /\ Panic("first page", i)
    /\ UNCHANGED <<stageB, stageC, disk>>

\* lib.rs 169-170: send() or text() fails, `.ok()?` returns None.
CategoryFirstPageFails(i) ==
    /\ state = "CategoriesFetched"
    /\ catTask[i].pc = "first"
    /\ CategoryReturns(i, catTask[i], None)

\* lib.rs 172-183: the page count is read, the page URLs are built and the
\* inner buffer_unordered is polled for the first time.
CategoryFirstPageArrives(i) ==
    /\ state = "CategoriesFetched"
    /\ catTask[i].pc = "first"
    /\ \E html \in CategoryHtml :
        IF page_count_panics(html)
        THEN Panic("page_count", i) /\ UNCHANGED <<stageB, stageC, disk>>
        ELSE LET n == page_count(html)
                 k == buffer_unordered(concurrent_tasks, 0, n)
                 task == [catTask[i] EXCEPT
                            !.pc = "pages", !.html = html, !.pages = n,
                            !.next = 1 + k, !.inflight = 1..k,
                            !.requested = [p \in 1..k |-> PageUrl(urls[i], p)]]
             IN IF n = 0
                THEN CategoryReturns(i, task, Some(<<>>))
                ELSE /\ catTask' = [catTask EXCEPT ![i] = task]
                     /\ UNCHANGED <<config, state, panic, ret, urls, catNext,
                                    catResults, resolved, collected, stageC, disk>>

\* One parse_titles future of category i has returned r (lib.rs 179-189):
\* the inner buffer_unordered pulls the next page, and when none is left
\* the results are flattened and parse_category returns.
TitlesReturn(i, p, r) ==
    LET t == catTask[i]
        k == buffer_unordered(concurrent_tasks, Cardinality(t.inflight \ {p}),
                              t.pages + 1 - t.next)
        task == [t EXCEPT
                   !.results = Append(@, r),
                   !.inflight = (@ \ {p}) \cup (t.next .. (t.next + k - 1)),
                   !.next = @ + k,
                   !.requested = @ \o [q \in 1..k |-> PageUrl(urls[i], t.next + q - 1)]]
    IN IF task.inflight = {} /\ task.next > task.pages
       THEN CategoryReturns(i, task, Some(flatten(flatten(task.results))))
       ELSE /\ catTask' = [catTask EXCEPT ![i] = task]
            /\ UNCHANGED <<config, state, panic, ret, urls, catNext, catResults,
                           resolved, collected, stageC, disk>>

\* The failure of one listing page carried up with `?` inside
\* parse_category: the category returns None.
ListingPageFails_category(i, p) ==
    /\ state = "CategoriesFetched"
    /\ catTask[i].pc = "pages"
    /\ p \in catTask[i].inflight
    /\ CategoryReturns(i, catTask[i], None)

\* lib.rs 155-156: send() or text() fails, parse_titles returns None.
ListingPageFails(i, p) ==
    /\ state = "CategoriesFetched"
    /\ catTask[i].pc = "pages"
    /\ p \in catTask[i].inflight
    /\ TitlesReturn(i, p, None)

\* lib.rs 157-164
ListingPageArrives(i, p) ==
    /\ state = "CategoriesFetched"
    /\ catTask[i].pc = "pages"
    /\ p \in catTask[i].inflight
    /\ \E anchors \in ListingHtml :
        IF parse_titles_panics(anchors)
        THEN Panic("href", i) /\ UNCHANGED <<stageB, stageC, disk>>
        ELSE TitlesReturn(i, p, Some(anchors))

\* ------------------------------------------- stage C: extraction futures
\* Result::ok (lib.rs 112): the Err of parse_houseplant becomes None.
ok(result) == IF result.error = "" THEN result.plant ELSE None

\* The test of lib.rs 113-114 inverted: insert is never reached.
calls_insert_never(opt_plant) == FALSE

\* lib.rs 113-114: insert is called for Some(plant) when a database is set.
calls_insert(opt_plant) == opt_plant # None /\ database

\* The result of db.insert dropped instead of expect()ed.
insert_result_dropped(result) == FALSE

\* lib.rs 115-117: expect() on the result of db.insert panics on Err.
insert_expect(result) == result = "Err"

\* The async block of stage C has returned opt (lib.rs 120-130): the outer
\* buffer_unordered pulls the next URL; when nothing is left the collected
\* options are flattened and scraper returns Ok(plants_info).
PlantReturns(j, task, opt) ==
    LET tasks1 == [plantTask EXCEPT ![j] = [task EXCEPT !.pc = "done"]]
        infos1 == Append(plants_info, opt)
        k == buffer_unordered(concurrent_tasks, PlantsInProgress(tasks1),
                              Len(plants_url) + 1 - plantNext)
        tasks2 == LaunchPlants(tasks1, plantNext, k)
    IN /\ plantTask' = tasks2
       /\ plantNext' = plantNext + k
       /\ plants_info' = infos1
       /\ UNCHANGED <<config, panic, stageB, plants_url>>
       /\ IF PlantsInProgress(tasks2) = 0 /\ plantNext + k > Len(plants_url)
          THEN state' = "Done" /\ ret' = [kind |-> "Ok", value |-> flatten(infos1)]
          ELSE UNCHANGED <<state, ret>>

\* unwrap() in place of ok() at lib.rs 112: an Err of parse_houseplant
\* panics.
ExtractionEnds_unwrap(j, task) ==
    IF task.error # ""
    THEN /\ Panic("unwrap", j)
         /\ plantTask' = [plantTask EXCEPT ![j] = task]
         /\ UNCHANGED <<stageB, plants_url, plantNext, plants_info>>
    ELSE IF calls_insert(task.plant)
    THEN /\ plantTask' = [plantTask EXCEPT ![j] =
                            [task EXCEPT !.pc = "insert",
                                         !.inserted = Append(@, task.plant[1])]]
         /\ UNCHANGED <<config, state, panic, ret, stageB, plants_url,
                        plantNext, plants_info>>
    ELSE PlantReturns(j, task, task.plant)

\* parse_houseplant has returned (lib.rs 112-121): an Err is dropped, an Ok
\* is handed to db.insert, whose future is polled at once.
ExtractionEnds(j, task) ==
    LET opt_plant == ok(task)
    IN IF calls_insert(opt_plant)
       THEN /\ plantTask' = [plantTask EXCEPT ![j] =
                               [task EXCEPT !.pc = "insert",
                                            !.inserted = Append(@, opt_plant[1])]]
            /\ UNCHANGED <<config, state, panic, ret, stageB, plants_url,
                           plantNext, plants_info>>
       ELSE PlantReturns(j, task, opt_plant)

\* lib.rs 193-194: send() or text() fails, `?` returns the error.
DetailPageFails(j) ==
    /\ state = "URLsDeduped"
    /\ plantTask[j].pc = "page"
    /\ ExtractionEnds(j, [plantTask[j] EXCEPT !.error = "Fetch"])
    /\ UNCHANGED disk

\* lib.rs 196-212: title (expect), name, image element (ok_or, `?`), its
\* data-src (expect), then download_image sends the request for the image.
DetailPageArrives(j) ==
    /\ state = "URLsDeduped"
    /\ plantTask[j].pc = "page"
    /\ UNCHANGED disk
    /\ \E html \in DetailHtml :
        LET task == [plantTask[j] EXCEPT !.html = html]
            aborted == [plantTask EXCEPT ![j] = task]
        IN IF ~html.title
           THEN /\ Panic("title", j)
                /\ plantTask' = aborted
                /\ UNCHANGED <<stageB, plants_url, plantNext, plants_info>>
           ELSE IF html.image = "missing"
           THEN ExtractionEnds(j, [task EXCEPT !.error = "ImageMissing"])
           ELSE IF html.image = "nosrc"
           THEN /\ Panic("data-src", j)
                /\ plantTask' = aborted
                /\ UNCHANGED <<stageB, plants_url, plantNext, plants_info>>
           ELSE /\ plantTask' = [plantTask EXCEPT ![j] =
                                   [task EXCEPT !.pc = "image", !.downloads = @ + 1]]
                /\ UNCHANGED <<config, state, panic, ret, stageB, plants_url,
                               plantNext, plants_info>>

\* The image requested again after a transport failure.
ImageFails_retried(j) ==
    /\ state = "URLsDeduped"
    /\ plantTask[j].pc = "image"
    /\ plantTask' = [plantTask EXCEPT ![j].downloads = @ + 1]
    /\ UNCHANGED <<config, state, panic, ret, stageB, plants_url, plantNext,
                   plants_info, disk>>

\* lib.rs 296-305: send() or bytes() fails, `?` returns the error.
ImageFails(j) ==
    /\ state = "URLsDeduped"
    /\ plantTask[j].pc = "image"
    /\ ExtractionEnds(j, [plantTask[j] EXCEPT !.error = "ImageDownload"])
    /\ UNCHANGED disk

\* lib.rs 312-316: create_dir_all, File::create or write_all fails (expect).
ImageFileFails(j) ==
    /\ state = "URLsDeduped"
    /\ plantTask[j].pc = "image"
    /\ Panic("image file", j)
    /\ UNCHANGED <<stageB, stageC, disk>>

\* A filename that does not derive from the timestamp.
image_filename_fixed(millis) == <<"0", ".jpg">>

\* current_millis.to_string() + ".jpg"
image_filename(millis) == Append(to_string(millis), ".jpg")

\* lib.rs 307-317 and 214-242: the bytes are written to <millis>.jpg, then
\* the table is looked for, its rows are read (expect on both cells) and
\* the record is built.
ImageArrives(j) ==
    /\ state = "URLsDeduped"
    /\ plantTask[j].pc = "image"
    /\ files' = files \cup {image_filename(clock)}
    /\ UNCHANGED clock
    /\ LET task == [plantTask[j] EXCEPT !.millis = Some(clock),
                                        !.file = Some(image_filename(clock))]
       IN IF task.html.table = "missing"
          THEN ExtractionEnds(j, [task EXCEPT !.error = "TableMissing"])
          ELSE IF task.html.table = "badrow"
          THEN /\ Panic("td", j)
               /\ plantTask' = [plantTask EXCEPT ![j] = task]
               /\ UNCHANGED <<stageB, plants_url, plantNext, plants_info>>
          ELSE ExtractionEnds(j, [task EXCEPT !.plant =
                   Some([url |-> plants_url[j], image |-> image_filename(clock)])])

\* lib.rs 115-120: db.insert has returned.
InsertReturns(j) ==
    /\ state = "URLsDeduped"
    /\ plantTask[j].pc = "insert"
    /\ UNCHANGED disk
    /\ \E result \in {"Ok", "Err"} :
        LET task == [plantTask[j] EXCEPT !.insert = result]
        IN IF insert_expect(result)
           THEN /\ Panic("insert", j)
                /\ plantTask' = [plantTask EXCEPT ![j] = task]
                /\ UNCHANGED <<stageB, plants_url, plantNext, plants_info>>
           ELSE PlantReturns(j, task, task.plant)

\* The wall clock advances between polls.  It is read by download_image
\* only, so only its advance during stage C is modelled.
Tick ==
    /\ state = "URLsDeduped"
    /\ clock < MaxClock
    /\ clock' = clock + 1
    /\ UNCHANGED <<config, state, panic, ret, stageB, stageC, files>>

Next ==
    \/ Scraper
    \/ FrontPageFails
    \/ FrontPageArrives
    \/ \E i \in DOMAIN catTask : CategoryFirstPageFails(i)
    \/ \E i \in DOMAIN catTask : CategoryFirstPageArrives(i)
    \/ \E i \in DOMAIN catTask : \E p \in 1..MaxPage : ListingPageFails(i, p)
    \/ \E i \in DOMAIN catTask : \E p \in 1..MaxPage : ListingPageArrives(i, p)
    \/ \E j \in DOMAIN plantTask : DetailPageFails(j)
    \/ \E j \in DOMAIN plantTask : DetailPageArrives(j)
    \/ \E j \in DOMAIN plantTask : ImageFails(j)
    \/ \E j \in DOMAIN plantTask : ImageFileFails(j)
    \/ \E j \in DOMAIN plantTask : ImageArrives(j)
    \/ \E j \in DOMAIN plantTask : InsertReturns(j)
    \/ Tick

Spec == Init /\ [][Next]_vars

\* --------------------------------------------- the pipeline, with answers
\* The answer (success or failure) to a request that is awaited: front
\* page, first page of a category, listing page, detail page, image, insert.
Answer ==
    \/ FrontPageFails
    \/ FrontPageArrives
    \/ \E i \in DOMAIN catTask : CategoryFirstPageFails(i)
    \/ \E i \in DOMAIN catTask : CategoryFirstPageArrives(i)
    \/ \E i \in DOMAIN catTask : \E p \in 1..MaxPage : ListingPageFails(i, p)
    \/ \E i \in DOMAIN catTask : \E p \in 1..MaxPage : ListingPageArrives(i, p)
    \/ \E j \in DOMAIN plantTask : DetailPageFails(j)
    \/ \E j \in DOMAIN plantTask : DetailPageArrives(j)
    \/ \E j \in DOMAIN plantTask : ImageFails(j)
    \/ \E j \in DOMAIN plantTask : ImageFileFails(j)
    \/ \E j \in DOMAIN plantTask : ImageArrives(j)
    \/ \E j \in DOMAIN plantTask : InsertReturns(j)

\* Every request that is awaited is eventually answered, and the executor
\* polls the task of scraper() whenever an answer has arrived.  An answer
\* is consumed once and no answer re-sends a request, so weak fairness of
\* the answers as a whole gives every single request its answer.
LiveSpec == Init /\ [][Next]_vars /\ WF_vars(Answer)

\* ----------------------------------------- parse_category, run on its own
\* One call of parse_category: scraper has read a front page with a single
\* category and has polled its parse_category future for the first time.
InitCategory ==
    /\ concurrent_tasks \in 1..MaxConcurrentTasks
    /\ database \in BOOLEAN
    /\ state = "CategoriesFetched"
    /\ panic = NoPanic
    /\ ret = [kind |-> "none", value |-> <<>>]
    /\ urls = <<1>>
    /\ catTask = LaunchCategories(<<IdleCategory>>, 1,
                                  buffer_unordered(concurrent_tasks, 0, 1))
    /\ catNext = 1 + buffer_unordered(concurrent_tasks, 0, 1)
    /\ catResults = <<>>
    /\ resolved = {}
    /\ collected = 0
    /\ plants_url = <<>>
    /\ plantNext = 1
    /\ plantTask = <<>>
    /\ plants_info = <<>>
    /\ clock = 0
    /\ files = {}
    /\ list = <<>>
    /\ attrs = None
    /\ title = <<>>
    /\ name = None

NextCategory ==
    \/ \E i \in DOMAIN catTask : CategoryFirstPageFails(i)
    \/ \E i \in DOMAIN catTask : CategoryFirstPageArrives(i)
    \/ \E i \in DOMAIN catTask : \E p \in 1..MaxPage : ListingPageFails(i, p)
    \/ \E i \in DOMAIN catTask : \E p \in 1..MaxPage : ListingPageArrives(i, p)

SpecCategory == InitCategory /\ [][NextCategory]_vars

\* ------------------------------------------------ stage B, run on its own
\* scraper has read a front page with two categories and has polled the
\* fan-out of stage B for the first time (lib.rs 59-88).
InitStageB ==
    /\ concurrent_tasks \in 1..MaxConcurrentTasks
    /\ database = FALSE   \* the storage is not touched before stage C
    /\ state = "CategoriesFetched"
    /\ panic = NoPanic
    /\ ret = [kind |-> "none", value |-> <<>>]
    /\ urls = <<1, 2>>
    /\ catTask = LaunchCategories(<<IdleCategory, IdleCategory>>, 1,
                                  buffer_unordered(concurrent_tasks, 0, 2))
    /\ catNext = 1 + buffer_unordered(concurrent_tasks, 0, 2)
    /\ catResults = <<>>
    /\ resolved = {}
    /\ collected = 0
    /\ plants_url = <<>>
    /\ plantNext = 1
    /\ plantTask = <<>>
    /\ plants_info = <<>>
    /\ clock = 0
    /\ files = {}
    /\ list = <<>>
    /\ attrs = None
    /\ title = <<>>
    /\ name = None

NextStageB ==
    \/ \E i \in DOMAIN catTask : CategoryFirstPageFails(i)
    \/ \E i \in DOMAIN catTask : CategoryFirstPageArrives(i)
    \/ \E i \in DOMAIN catTask : \E p \in 1..MaxPage : ListingPageFails(i, p)
    \/ \E i \in DOMAIN catTask : \E p \in 1..MaxPage : ListingPageArrives(i, p)

SpecStageB == InitStageB /\ [][NextStageB]_vars

\* ------------------------------------------------ stage C, run on its own
\* Stage B has drained: the flattened vector of lib.rs 94 holds some detail
\* URLs, in any order and with repetitions; lib.rs 98-125 have sorted and
\* deduplicated it and have polled the fan-out of stage C for the first
\* time.
InitStageC ==
    /\ concurrent_tasks \in 1..MaxConcurrentTasks
    /\ database \in BOOLEAN
    /\ state = "URLsDeduped"
    /\ panic = NoPanic
    /\ ret = [kind |-> "none", value |-> <<>>]
    /\ urls = <<>>
    /\ catTask = <<>>
    /\ catNext = 1
    /\ catResults = <<>>
    /\ \E flat \in UNION {[1..k -> DetailUrls] : k \in 1..(MaxUrl + 1)} :
          LET pu == dedup(sort_unstable(flat))
              k == buffer_unordered(concurrent_tasks, 0, Len(pu))
          IN /\ resolved = Range(flat)
             /\ collected = Len(flat)
             /\ plants_url = pu
             /\ plantTask = LaunchPlants([j \in 1..Len(pu) |-> IdlePlant], 1, k)
             /\ plantNext = 1 + k
    /\ plants_info = <<>>
    /\ clock = 0
    /\ files = {}
    /\ list = <<>>
    /\ attrs = None
    /\ title = <<>>
    /\ name = None

NextStageC ==
    \/ \E j \in DOMAIN plantTask : DetailPageFails(j)
    \/ \E j \in DOMAIN plantTask : DetailPageArrives(j)
    \/ \E j \in DOMAIN plantTask : ImageFails(j)
    \/ \E j \in DOMAIN plantTask : ImageFileFails(j)
    \/ \E j \in DOMAIN plantTask : ImageArrives(j)
    \/ \E j \in DOMAIN plantTask : InsertReturns(j)
    \/ Tick

SpecStageC == InitStageC /\ [][NextStageC]_vars

\* ------------------------------------- parse_attributes, run on its own
InitClassify ==
    /\ InitScraper
    /\ list \in AttributeLists
    /\ attrs = None
    /\ title = <<>>
    /\ name = None

\* self.parse_attributes(list) (lib.rs 234, 245-292); it always returns Ok.
ParseAttributes ==
    /\ attrs = None
    /\ attrs' = Some(parse_attributes(list))
    /\ UNCHANGED <<concurrent_tasks, database, state, panic, ret, stageB, stageC,
                   disk, list, title, name>>

NextClassify == ParseAttributes

SpecClassify == InitClassify /\ [][NextClassify]_vars

\* ------------------------------------------- the record name, on its own
InitName ==
    /\ InitScraper
    /\ list = <<>>
    /\ attrs = None
    /\ title \in Titles
    /\ name = None

\* lib.rs 198-203: the text of the title element is cut at the separator.
PlantName ==
    /\ name = None
    /\ name' = Some(plant_name(title))
    /\ UNCHANGED <<concurrent_tasks, database, state, panic, ret, stageB, stageC,
                   disk, list, attrs, title>>

NextName == PlantName

SpecName == InitName /\ [][NextName]_vars

\* =================================================================== claims
RECURSIVE Sum(_, _)
Sum(f, S) == IF S = {} THEN 0
             ELSE LET x == CHOOSE y \in S : TRUE IN f[x] + Sum(f, S \ {x})

\* Page fetches of stage B that have been sent and not yet answered: the
\* first page of a category, or the listing pages of its inner fan-out.
FetchesInFlightB ==
    Sum([i \in DOMAIN catTask |->
            IF catTask[i].pc = "first" THEN 1
            ELSE IF catTask[i].pc = "pages" THEN Cardinality(catTask[i].inflight)
            ELSE 0],
        DOMAIN catTask)

\* C1: during stage B the number of page fetches in flight at the same time
\* never exceeds concurrent_tasks.
C1_StageBFetchesBounded ==
    state = "CategoriesFetched" => FetchesInFlightB <= concurrent_tasks

\* C2: during stage C at most concurrent_tasks detail URLs have an
\* extraction started and not finished, hence at most concurrent_tasks
\* fetches (detail page or image) and at most concurrent_tasks inserts are
\* in flight.
C2_StageCBounded ==
    /\ PlantsInProgress(plantTask) <= concurrent_tasks
    /\ Cardinality({j \in DOMAIN plantTask : plantTask[j].pc \in {"page", "image"}})
          <= concurrent_tasks
    /\ Cardinality({j \in DOMAIN plantTask : plantTask[j].pc = "insert"})
          <= concurrent_tasks

\* An extraction has returned and the fan-out of stage C is full again.
C2_Witness ==
    /\ state = "URLsDeduped"
    /\ \E j \in DOMAIN plantTask : plantTask[j].pc = "done"
    /\ PlantsInProgress(plantTask) = concurrent_tasks

\* parse_houseplant calls made for detail URL u.
HouseplantCalls(u) ==
    Sum([j \in DOMAIN plantTask |-> IF plants_url[j] = u THEN plantTask[j].calls ELSE 0],
        DOMAIN plantTask)

\* C3: the detail URLs handed to stage C hold no duplicate and hold every
\* URL returned by a successful category resolution; parse_houseplant is
\* called at most once for a URL, and exactly once when the run completes.
C3_GlobalDedup ==
    /\ \A a, b \in DOMAIN plants_url : a # b => plants_url[a] # plants_url[b]
    /\ state \in {"URLsDeduped", "Done"} => Range(plants_url) = resolved
    /\ \A u \in DetailUrls : HouseplantCalls(u) <= 1
    /\ state = "Done" => \A u \in resolved : HouseplantCalls(u) = 1

\* A completed run in which stage B had collected two URLs more than once.
C3_Witness ==
    /\ state = "Done"
    /\ Len(plants_url) > 1
    /\ collected > Len(plants_url) + 1
    /\ \A u \in resolved : HouseplantCalls(u) = 1

\* The detail page read by extraction j has no title element.
TitleMissing(j) ==
    /\ plantTask[j].html \in DetailHtml
    /\ ~plantTask[j].html.title

\* Records of the returned list that belong to the detail URL of task j.
RecordsOf(j) ==
    Cardinality({r \in DOMAIN ret.value : ret.value[r].url = plants_url[j]})

\* C4: a detail page without title element does not fail the run: the
\* extraction of that URL alone aborts.
C4_MissingTitleIsolated ==
    \A j \in DOMAIN plantTask : TitleMissing(j) => state # "Panicked"

\* Extraction j has failed with a detail-page transport failure, a missing
\* image reference element, an image download transport failure or a
\* missing attribute table.
ItemFailed(j) ==
    \/ plantTask[j].error \in {"Fetch", "ImageDownload", "TableMissing"}
    \/ plantTask[j].html \in DetailHtml /\ plantTask[j].html.image = "missing"

\* C5: a detail-page transport failure, a missing image element, an image
\* download failure or a missing table fails its own URL only: the run is
\* not aborted by it, and the list returned at Done holds one record for
\* every URL whose extraction succeeded and none for a failed URL.
C5_ItemFailuresIsolated ==
    /\ \A j \in DOMAIN plantTask :
          ItemFailed(j) =>
             /\ plantTask[j].pc = "done"
             /\ plantTask[j].plant = None
             /\ ~(state = "Panicked" /\ panic.task = j)
    /\ state = "Done" =>
          /\ ret.kind = "Ok"
          /\ Len(ret.value) = Cardinality({j \in DOMAIN plantTask : ~ItemFailed(j)})
          /\ \A j \in DOMAIN plantTask :
                RecordsOf(j) = IF ItemFailed(j) THEN 0 ELSE 1

\* A completed run in which one URL failed and another gave its record.
C5_Witness ==
    /\ state = "Done"
    /\ \E j, k \in DOMAIN plantTask :
          /\ ItemFailed(j)
          /\ ~ItemFailed(k)
          /\ RecordsOf(k) = 1

NothingProcessed ==
    /\ urls = <<>> /\ catTask = <<>> /\ catResults = <<>>
    /\ plants_url = <<>> /\ plantTask = <<>> /\ plants_info = <<>>

PanicSites == {"page_count", "href", "title", "data-src", "image file", "td", "insert"}

C7_InsertOncePerRecord ==
    \A j \in DOMAIN plantTask :
        LET t == plantTask[j]
        IN /\ t.inserted = IF database /\ t.error = "" /\ t.plant # None
                           THEN <<[url |-> plants_url[j], image |-> t.plant[1].image]>>
                           ELSE <<>>
           /\ t.inserted # <<>> => t.pc \in {"insert", "done"}
           /\ t.insert # "" => Len(t.inserted) = 1

\* A completed run with a database where one URL was inserted and another,
\* whose extraction failed, was not.
C7_Witness ==
    /\ state = "Done"
    /\ database
    /\ \E j, k \in DOMAIN plantTask :
          /\ plantTask[j].inserted # <<>> /\ plantTask[j].insert = "Ok"
          /\ plantTask[k].error # "" /\ plantTask[k].inserted = <<>>

\* C8: when an insert call has returned an error the run is aborted: it
\* does not reach Done and returns no record list.
C8_InsertFailureFatal ==
    (\E j \in DOMAIN plantTask : plantTask[j].insert = "Err") =>
        /\ state = "Panicked"
        /\ ret.kind = "none"

\* An insert has failed while another extraction was in flight or had
\* already completed.
C8_Witness ==
    \E j, k \in DOMAIN plantTask :
        /\ j # k
        /\ plantTask[j].insert = "Err"
        /\ plantTask[k].pc \in {"page", "image", "insert", "done"}

\* The first page of a category is as C9 describes it for n: no nav-links
\* element and n = 1, or a nav-links element whose third-from-last child
\* has the number n as its text.
PagesClaimed(html, n) ==
    \/ ~html.nav /\ n = 1
    \/ /\ html.nav
       /\ Len(html.children) >= 3
       /\ html.children[Len(html.children) - 2] = to_string(n)

\* Every listing page requested so far is one of <url>/page/1..n, and none
\* was requested twice.
RequestedWithin(url, requested, n) ==
    /\ \A r \in DOMAIN requested : \E k \in 1..n : requested[r] = PageUrl(url, k)
    /\ \A r, q \in DOMAIN requested : r # q => requested[r] # requested[q]

\* Exactly the n URLs <url>/page/1..n were requested, each once.
RequestedAll(url, requested, n) ==
    /\ Len(requested) = n
    /\ \A k \in 1..n : Count(requested, PageUrl(url, k)) = 1

\* While parse_category runs its fan-out.
C9_State ==
    \A i \in DOMAIN catTask : \A n \in 0..MaxPage :
        LET t == catTask[i]
        IN (t.pc = "pages" /\ PagesClaimed(t.html, n))
           => /\ t.pages = n
              /\ RequestedWithin(urls[i], t.requested, n)

\* The step by which parse_category returns: the task leaves "pages", to
\* "done" or, when it is the last of stage B, with the whole stage.
C9_Step ==
    \A i \in DOMAIN catTask : \A n \in 0..MaxPage :
        (/\ catTask[i].pc = "pages"
         /\ PagesClaimed(catTask[i].html, n)
         /\ \/ state' \in {"URLsDeduped", "Done"}
            \/ i \in DOMAIN catTask' /\ catTask'[i].pc = "done")
        => RequestedAll(urls[i], catTask[i].requested, n)

\* C9: without nav-links element page_count is 1 and parse_category
\* requests exactly <categoryUrl>/page/1; with a nav-links element whose
\* third-from-last child reads N, page_count is N and parse_category
\* requests exactly <categoryUrl>/page/1 .. <categoryUrl>/page/N, each once.
C9_Pagination == []C9_State /\ [][C9_Step]_vars

\* parse_category is about to return for a category whose nav-links
\* element announces more than one page: every page was requested and the
\* last answer is awaited.
C9_Witness ==
    \E i \in DOMAIN catTask :
        /\ catTask[i].pc = "pages"
        /\ catTask[i].html.nav
        /\ catTask[i].pages > 1
        /\ Len(catTask[i].requested) = catTask[i].pages
        /\ Len(catTask[i].results) = catTask[i].pages - 1

\* The keywords of the nine categories, by the slot of the category.
KeywordsOf ==
    [slot \in Slots |->
        CASE slot = "temperature" -> {"temperat"}
          [] slot = "humidity" -> {"vlazhn"}
          [] slot = "illumination" -> {"osveshchen"}
          [] slot = "watering" -> {"poliv"}
          [] slot = "soil" -> {"grunt"}
          [] slot = "fertilizer" -> {"podkorm", "udobren"}
          [] slot = "transplant" -> {"peresad"}
          [] slot = "propagation" -> {"razmnozh"}
          [] slot = "features" -> {"osoben"}]

\* The categories that have a keyword in the label, whatever its case.
CategoriesIn(label) ==
    {slot \in Slots : \E w \in DOMAIN label : label[w].stem \in KeywordsOf[slot]}

OnlySlot(result, slot, row) ==
    \A other \in Slots : result[other] = IF other = slot THEN Some(row) ELSE None

\* C10: for a single row whose lower-cased label holds the keyword of one
\* recognized category, exactly the slot of that category is populated,
\* with that row; for a row whose label holds no recognized keyword,
\* exactly the features slot is populated.
C10_SingleRow ==
    (attrs # None /\ Len(list) = 1) =>
        LET row == list[1]
            cats == CategoriesIn(row.parameter)
        IN /\ \A slot \in Slots : cats = {slot} => OnlySlot(attrs[1], slot, row)
           /\ cats = {} => OnlySlot(attrs[1], "features", row)

\* A row whose label holds a capitalised watering keyword and an
\* unrecognized word has been classified.
C10_Witness ==
    /\ attrs # None
    /\ Len(list) = 1
    /\ Len(list[1].parameter) = 2
    /\ list[1].parameter[1].stem = "cvet"
    /\ list[1].parameter[2] = [stem |-> "poliv", upper |-> TRUE]
    /\ attrs[1]["watering"] = Some(list[1])

\* The fixed priority order of the categories.
Priority == <<"temperature", "humidity", "illumination", "watering", "soil",
              "fertilizer", "transplant", "propagation", "features">>

\* The category of cats listed earliest in the priority order.
Earliest(cats) ==
    Priority[CHOOSE a \in DOMAIN Priority :
                /\ Priority[a] \in cats
                /\ \A b \in DOMAIN Priority : Priority[b] \in cats => a <= b]

\* C11: for a row whose label holds the keywords of two or more categories,
\* in any order, the slot populated is that of the category listed earliest
\* in the priority order, wherever in the label the keywords occur.
C11_PriorityWins ==
    (attrs # None /\ Len(list) = 1) =>
        LET row == list[1]
            cats == CategoriesIn(row.parameter)
        IN Cardinality(cats) >= 2 => OnlySlot(attrs[1], Earliest(cats), row)

\* Stage C has started: a detail URL was handed on, an extraction future
\* exists, a file was written or a result was collected.
StageCStarted ==
    \/ plants_url # <<>>
    \/ plantTask # <<>>
    \/ plants_info # <<>>
    \/ files # {}

\* Before the barrier nothing of stage C exists; behind it nothing of stage
\* B is in flight and the detail URLs are sorted, without duplicate.
C12_State ==
    /\ state \in {"New", "Start", "CategoriesFetched"} => ~StageCStarted
    /\ StageCStarted =>
          /\ FetchesInFlightB = 0
          /\ \A a, b \in DOMAIN plants_url : a < b => plants_url[a] < plants_url[b]
    /\ \A j \in DOMAIN plantTask :
          plantTask[j].calls > 0 => state \in {"URLsDeduped", "Done", "Panicked"}

\* The step over the barrier is the return of the last category resolution:
\* the stream of category URLs is exhausted, every other resolution has
\* been collected and the answer of this step is the only fetch in flight.
C12_Step ==
    (state = "CategoriesFetched" /\ state' \in {"URLsDeduped", "Done"}) =>
        /\ catNext > Len(urls)
        /\ Len(catResults) = Len(urls) - 1
        /\ FetchesInFlightB = 1
        /\ Cardinality({i \in DOMAIN catTask : catTask[i].pc = "done"}) = Len(urls) - 1
        /\ Range(plants_url') = resolved'

\* C12: no extraction, image download or insert starts before every
\* category resolution of stage B has completed and the collected URLs are
\* sorted and deduplicated; operations of stage B and of stage C are never
\* in flight at the same time.
C12_StageBarrier == []C12_State /\ [][C12_Step]_vars

\* Stage C runs on URLs that two category resolutions have collected: one
\* extraction has written its file while another is still fetching its
\* page.
C12_Witness ==
    /\ state = "URLsDeduped"
    /\ collected >= 2
    /\ files # {}
    /\ \E j \in DOMAIN plantTask : plantTask[j].pc = "page"

\* Category k is left alone by a step, or is pulled from the stream and
\* polled for the first time.
CategoryUntouched(k) ==
    \/ catTask'[k] = catTask[k]
    \/ catTask[k].pc = "idle" /\ catTask'[k] = [catTask[k] EXCEPT !.pc = "first"]

\* The detail URLs collected from the category resolutions in results.
Contribution(results) == flatten(flatten(results))

C13_Step ==
    \A i \in DOMAIN catTask :
        CategoryFirstPageFails(i) =>
            /\ state' \in {"CategoriesFetched", "URLsDeduped", "Done"}
            /\ panic' = NoPanic
            /\ ret'.kind # "Err"
            /\ resolved' = resolved
            /\ IF state' = "CategoriesFetched"
               THEN /\ catResults' = Append(catResults, None)
                    /\ Contribution(catResults') = Contribution(catResults)
                    /\ \A k \in DOMAIN catTask \ {i} : CategoryUntouched(k)
               ELSE /\ collected' = Len(Contribution(catResults))
                    /\ plants_url' = dedup(sort_unstable(Contribution(catResults)))

\* C13: a transport failure on the first page of a category makes
\* parse_category yield None: the category contributes no detail URL, the
\* run does not fail and the detail URLs contributed by every other
\* category are unchanged.
C13_FirstPageFailureLocal == [][C13_Step]_vars

\* The first page of one category has failed, its None is collected, and
\* the other category goes on resolving its listing pages.
C13_Witness ==
    /\ state = "CategoriesFetched"
    /\ catResults = <<None>>
    /\ \E i \in DOMAIN catTask :
          /\ catTask[i].pc = "pages"
          /\ catTask[i].results # <<>>
          /\ Contribution(catTask[i].results) # <<>>

\* C14: a nav-links element from which no page count can be read drops the
\* contribution of its category only: the failure does not escape the
\* task of the category and the run is not aborted by it.
C14_PageCountLocal == ~(state = "Panicked" /\ panic.what = "page_count")

\* The run was aborted by the failure of a storage insert.
InsertFailed == state = "Panicked" /\ panic.what = "insert"

\* C15: once the front page has been fetched, and when every fetch, image
\* download and insert is eventually answered and no insert fails, the run
\* eventually reaches Done and returns the record list.
C15_Terminates ==
    (state \in {"CategoriesFetched", "URLsDeduped"})
        ~> (InsertFailed \/ (state = "Done" /\ ret.kind = "Ok"))

\* The extractions whose download_image call has written its file.
Archived == {j \in DOMAIN plantTask : plantTask[j].file # None}

\* C16 as stated: no two download_image calls of a run return the same
\* filename, so no file is overwritten and no two records share an image.
C16_DistinctFilenames ==
    \A j, k \in Archived : j # k => plantTask[j].file # plantTask[k].file

\* C16 amended: two download_image calls return the same filename exactly
\* when they read the same millisecond; calls at distinct milliseconds
\* write distinct files, calls within one millisecond write the same path,
\* so the later file replaces the earlier one and their records share the
\* image filename.
C16_DistinctPerMillisecond ==
    /\ \A j, k \in Archived :
          (plantTask[j].file = plantTask[k].file)
             <=> (plantTask[j].millis = plantTask[k].millis)
    /\ files = {plantTask[j].file[1] : j \in Archived}
    /\ Cardinality(files) = Cardinality({plantTask[j].millis : j \in Archived})
    /\ \A j \in DOMAIN plantTask :
          plantTask[j].plant # None => plantTask[j].file = Some(plantTask[j].plant[1].image)

\* A completed run that returns two records with the same image filename:
\* both images were written within one millisecond, one file is left.
C16_Witness ==
    /\ state = "Done"
    /\ Len(ret.value) = 2
    /\ ret.value[1].url # ret.value[2].url
    /\ ret.value[1].image = ret.value[2].image
    /\ Cardinality(files) = 1

\* The positions of the separator in a text.
SeparatorsIn(text) == {c \in DOMAIN text : text[c] = Separator}

\* The substring of a text before the first occurrence of the separator,
\* the whole text when it has none.
BeforeSeparator(text) ==
    IF SeparatorsIn(text) = {} THEN text
    ELSE SubSeq(text, 1, (CHOOSE c \in SeparatorsIn(text) :
                             \A d \in SeparatorsIn(text) : c <= d) - 1)

\* A text without its leading and trailing whitespace.
Trimmed(text) ==
    LET solid == {c \in DOMAIN text : text[c] # " "}
    IN IF solid = {} THEN <<>>
       ELSE SubSeq(text, CHOOSE c \in solid : \A d \in solid : c <= d,
                         CHOOSE c \in solid : \A d \in solid : c >= d)

\* C17: the name of the record is the substring of the title before the
\* first separator, with leading and trailing whitespace removed; without
\* separator it is the whole title, trimmed.
C17_NameTrimmed == name # None => name[1] = Trimmed(BeforeSeparator(title))

\* C18: a table row with fewer than two cells drops the record of its URL
\* only: the failure does not escape the task of that URL and the run
\* goes on.
C18_BadRowIsolated == ~(state = "Panicked" /\ panic.what = "td")

\* The detail page read by extraction j, once it has arrived.
PageRead(j) == plantTask[j].html \in DetailHtml

\* C19 as stated: every image file written belongs to a record of the
\* returned list; an extraction that fails leaves no image file behind.
C19_NoFileWithoutRecord ==
    \A j \in Archived : plantTask[j].pc = "done" => ok(plantTask[j]) # None

\* C19 amended: download_image is invoked at most once per detail URL,
\* after the title and the image element were found and never for a URL
\* whose page fetch failed or whose image element is missing; it has
\* written its file before the table is looked for, so the image of every
\* record is a file written, and an extraction that fails on the table
\* leaves its image file behind.
C19_ArchiveBeforeTable ==
    \A j \in DOMAIN plantTask :
        LET t == plantTask[j]
        IN /\ t.downloads <= 1
           /\ t.downloads = 1 => PageRead(j) /\ t.html.title /\ t.html.image = "ok"
           /\ t.error = "Fetch" => t.downloads = 0
           /\ (PageRead(j) /\ t.html.image = "missing") => t.downloads = 0
           /\ t.file # None => t.downloads = 1 /\ t.file[1] \in files
           /\ t.error = "TableMissing" => t.file # None /\ t.plant = None
           /\ t.plant # None => t.file = Some(t.plant[1].image)

\* A completed run that returns a record and has left behind the image
\* file of a URL whose page has no table: no record names that file.
C19_Witness ==
    /\ state = "Done"
    /\ ret.value # <<>>
    /\ \E j \in Archived :
          /\ plantTask[j].error = "TableMissing"
          /\ plantTask[j].file[1] \in files
          /\ \A r \in DOMAIN ret.value : ret.value[r].image # plantTask[j].file[1]

IsPrefix(a, b) == Len(a) <= Len(b) /\ SubSeq(b, 1, Len(a)) = a

\* The step of category i is the failure of one of its listing pages.
ListingFailure(i) == \E p \in 1..MaxPage : ListingPageFails(i, p)

\* For a parse_category call that runs its fan-out, prior being the detail
\* URLs of the listing pages it has fetched so far: a step that does not
\* end the call keeps them, the failure of a page adding None alone; the
\* step that ends the call hands Some to the collect of stage B, holding
\* prior and, unless the step is a failure, the URLs of the last page.
C20_Step ==
    \A i \in DOMAIN catTask :
        catTask[i].pc = "pages" =>
            LET t == catTask[i]
                prior == Contribution(t.results)
                before == Contribution(catResults) \o prior
            IN /\ (state' = "CategoriesFetched" /\ catTask'[i].pc = "pages") =>
                     /\ IsPrefix(t.results, catTask'[i].results)
                     /\ ListingFailure(i) =>
                           /\ catTask'[i].results = Append(t.results, None)
                           /\ catResults' = catResults
               /\ (state' = "CategoriesFetched" /\ catTask'[i].pc = "done") =>
                     /\ Len(catResults') = Len(catResults) + 1
                     /\ catResults'[Len(catResults')] # None
                     /\ IsPrefix(prior, catResults'[Len(catResults')][1])
                     /\ ListingFailure(i) => catResults'[Len(catResults')] = Some(prior)
               /\ state' \in {"URLsDeduped", "Done"} =>
                     /\ collected' >= Len(before)
                     /\ Range(before) \subseteq Range(plants_url')
                     /\ ListingFailure(i) =>
                           /\ collected' = Len(before)
                           /\ plants_url' = dedup(sort_unstable(before))

\* C20: inside parse_category a transport failure on one listing page drops
\* the detail URLs of that page only; parse_category still returns Some,
\* with the detail URLs of every other page fetched, and returns Some
\* whenever the first page of the category was fetched.
C20_ListingFailureLocal == [][C20_Step]_vars

\* One listing page of a two-page category has failed, the other is
\* awaited; a first category has returned its detail URL.
C20_Witness ==
    /\ state = "CategoriesFetched"
    /\ Contribution(catResults) # <<>>
    /\ \E i \in DOMAIN catTask :
          /\ catTask[i].pc = "pages"
          /\ catTask[i].pages = 2
          /\ catTask[i].results = <<None>>
          /\ catTask[i].inflight # {}

====
